---- MODULE Spec2Model ----
(***************************************************************************)
(* A model of webshot-mcp (src/src/webshot_mcp/server.py).                 *)
(*                                                                         *)
(* The specifications of this module:                                      *)
(*   SpecCapture   - call_tool, take_screenshot and its retry loop, and    *)
(*                   the steps of _take_screenshot_attempt;                *)
(*   SpecSettle    - one attempt from _smart_scroll_page on, on documents  *)
(*                   that grow and shrink while they are scrolled;         *)
(*   SpecIntercept - _handle_resource_cache, the route handler, with the   *)
(*                   cache directory it shares between requests;           *)
(*   SpecCache     - two invocations of the handler on one cache key;      *)
(*   SpecRace      - the same, in two server processes.                    *)
(* Strings the code inspects (URLs, hosts, paths, extensions) are tuples   *)
(* of one-character strings, so that startswith, endswith, `in`,           *)
(* urlparse and os.path.splitext are computed as the code computes them.   *)
(***************************************************************************)
EXTENDS Integers, Sequences, FiniteSets, TLC

VARIABLES
    \* ---- call_tool / take_screenshot / _take_screenshot_attempt ----
    name,           \* call_tool's `name`
    args,           \* call_tool's `arguments`
    ct_pc,          \* position in call_tool
    tool_result,    \* what call_tool gave back to the tool boundary
    ts_pc,          \* position in take_screenshot
    attempt,        \* the loop variable of line 438 (0-based)
    attempts_made,  \* calls of _take_screenshot_attempt so far
    sleeps,         \* asyncio.sleep(1) backoffs so far (line 447)
    last_error,     \* line 437/444
    ts_raised,      \* the exception take_screenshot raised, if any
    ts_result,      \* the value take_screenshot returned, if any
    att_pc,         \* position in _take_screenshot_attempt
    pending,        \* the exception in flight when `finally` runs
    browsers,       \* attempts (1-based) whose browser is open
    launched,       \* successful chromium.launch calls so far
    out_file,       \* the file at output_path
    soft_timeout,   \* some best-effort wait of this attempt timed out
    document,       \* the document the URL serves: its scrollHeight and how
                    \* it may change between two reads
    page,           \* the page of this attempt: viewport and scale factor
    scroll,         \* the locals of _smart_scroll_page
    capture,        \* page_height (line 539) and what the screenshot was taken of
    image,          \* the pixel dimensions of the file at output_path
    steps,          \* the steps of this attempt that have completed, in order
    \* ---- _handle_resource_cache and the cache directory ----
    now,            \* time.time(), in seconds
    files,          \* the cache directory: cache file name -> file
    handlers,       \* the route handler invocations, by request id
    issued,         \* requests issued so far
    page_requests,  \* the requests the page may issue: <<url, method>>
    event_loop      \* the event loop (server process) each handler slot runs in

varsC == <<name, args, ct_pc, tool_result, ts_pc, attempt, attempts_made, sleeps,
           last_error, ts_raised, ts_result, att_pc, pending, browsers, launched,
           out_file, soft_timeout, document, page, scroll, capture, image, steps>>
varsI == <<now, files, handlers, issued, page_requests, event_loop>>
vars == <<varsC, varsI>>

(***************************************************************************)
(* Strings as tuples of characters.                                        *)
(***************************************************************************)
LowerMap ==
    [A |-> "a", B |-> "b", C |-> "c", D |-> "d", E |-> "e", F |-> "f", G |-> "g",
     H |-> "h", I |-> "i", J |-> "j", K |-> "k", L |-> "l", M |-> "m", N |-> "n",
     O |-> "o", P |-> "p", Q |-> "q", R |-> "r", S |-> "s", T |-> "t", U |-> "u",
     V |-> "v", W |-> "w", X |-> "x", Y |-> "y", Z |-> "z"]

\* str.lower()
lower(s) == [i \in 1..Len(s) |-> IF s[i] \in DOMAIN LowerMap THEN LowerMap[s[i]] ELSE s[i]]

\* str.startswith(p)
startswith(s, p) == Len(p) <= Len(s) /\ SubSeq(s, 1, Len(p)) = p

\* str.endswith(p)
endswith(s, p) == Len(p) <= Len(s) /\ SubSeq(s, Len(s) - Len(p) + 1, Len(s)) = p

\* `p in s` on strings
contains(s, p) == \E i \in 1..(Len(s) - Len(p) + 1) : SubSeq(s, i, i + Len(p) - 1) = p

\* the least index >= from of a character of cs in s, Len(s) + 1 when there is none
FindAny(s, cs, from) ==
    LET hits == {i \in from..Len(s) : s[i] \in cs}
    IN  IF hits = {} THEN Len(s) + 1 ELSE CHOOSE i \in hits : \A j \in hits : i <= j

\* the greatest index of character c in s, 0 when there is none
RFind(s, c) ==
    LET hits == {i \in 1..Len(s) : s[i] = c}
    IN  IF hits = {} THEN 0 ELSE CHOOSE i \in hits : \A j \in hits : j <= i

(***************************************************************************)
(* Inputs of call_tool and take_screenshot.                                *)
(***************************************************************************)
MaxRetries == 2

\* https://example.com
p_https == <<"h","t","t","p","s",":","/","/","e","x","a","m","p","l","e",".","c","o","m">>
\* http://example.com
p_http == <<"h","t","t","p",":","/","/","e","x","a","m","p","l","e",".","c","o","m">>
\* ftp://example.com
p_ftp == <<"f","t","p",":","/","/","e","x","a","m","p","l","e",".","c","o","m">>
\* HTTPS://example.com
p_upper == <<"H","T","T","P","S",":","/","/","e","x","a","m","p","l","e",".","c","o","m">>
\* example.com
p_bare == <<"e","x","a","m","p","l","e",".","c","o","m">>

Names == {"webshot", "screenshot"}
Urls == {p_https, p_http, p_ftp, p_upper, p_bare}
Outputs == {"/tmp/x.png", "shots/y.png"}
Heights == {0, 768}
DpiScales == {1, 2}
Formats == {"png", "jpeg", "gif"}
Qualities == {-1, 0, 100, 101}
Widths == {1280}
Devices == {"desktop", "mobile"}

\* `arguments`: well_formed is whether take_screenshot(**arguments) binds at all
\* (no required argument missing, no unknown keyword).
Arguments ==
    [well_formed : BOOLEAN, url : Urls, output : Outputs, width : Widths,
     height : Heights, dpi_scale : DpiScales, device : Devices, format : Formats,
     quality : Qualities, max_retries : 0..MaxRetries]

(***************************************************************************)
(* Exceptions and results.                                                 *)
(***************************************************************************)
NoError == [type |-> "none", at |-> "none", attempt |-> 0]
ValueError(what) == [type |-> "ValueError", at |-> what, attempt |-> 0]
TypeError(what) == [type |-> "TypeError", at |-> what, attempt |-> 0]
OSError(what) == [type |-> "OSError", at |-> what, attempt |-> 0]
\* an exception raised by step `step` of attempt number n (1-based)
AttemptError(step, n) == [type |-> "Exception", at |-> step, attempt |-> n]

NoneResult == [status |-> "None", path |-> ""]
\* lines 585-588
SuccessResult(output_path) == [status |-> "success", path |-> output_path]

NoToolResult == [kind |-> "none", status |-> "none", path |-> "", error |-> NoError]
\* line 400: the exception leaves call_tool
ToolRaised(e) == [kind |-> "raised", status |-> "none", path |-> "", error |-> e]
\* line 404: TextContent(text=result["message"])
ToolSuccessText(result) ==
    [kind |-> "text", status |-> "success", path |-> result.path, error |-> NoError]
\* line 407: TextContent(text=f"... {str(e)}")
ToolFailureText(e) == [kind |-> "text", status |-> "failure", path |-> "", error |-> e]

ToolExceptPropagates(e) == ToolRaised(e)
\* lines 405-407: except Exception as e
ToolExcept(e) == ToolFailureText(e)

(***************************************************************************)
(* take_screenshot: validation, lines 423-430.                             *)
(***************************************************************************)
\* line 423
ValidUrl(url) ==
    \/ startswith(url, <<"h","t","t","p",":","/","/">>)
    \/ startswith(url, <<"h","t","t","p","s",":","/","/">>)

\* line 426
ValidFormat(format) == format \in {"png", "jpeg", "webp"}

ValidQualityNoLower(quality) == ~(quality > 100)
\* line 429
ValidQuality(quality) == ~(quality < 0 \/ quality > 100)

\* lines 423-430, in the order of the code
ValidationError(a) ==
    IF ~ValidUrl(a.url) THEN ValueError("url")
    ELSE IF ~ValidFormat(a.format) THEN ValueError("format")
    ELSE IF ~ValidQuality(a.quality) THEN ValueError("quality")
    ELSE NoError

(***************************************************************************)
(* call_tool, lines 396-407.                                               *)
(***************************************************************************)
UNCH_ts == UNCHANGED <<attempt, attempts_made, sleeps, last_error, ts_raised, ts_result>>
UNCH_att ==
    UNCHANGED <<att_pc, pending, browsers, launched, out_file, soft_timeout,
                document, page, scroll, capture, image, steps>>

\* lines 399-400: an unknown tool name raises before the try block
call_tool_unknown ==
    /\ ct_pc = "entry"
    /\ name # "webshot"
    /\ ct_pc' = "done"
    /\ tool_result' = ToolRaised(ValueError("unknown tool"))
    /\ UNCHANGED <<name, args, ts_pc>>
    /\ UNCH_ts /\ UNCH_att
    /\ UNCHANGED varsI

\* lines 402-403: take_screenshot(**arguments) is entered, or the call itself
\* raises TypeError inside the try block
call_tool_invoke ==
    /\ ct_pc = "entry"
    /\ name = "webshot"
    /\ IF args.well_formed
       THEN /\ ct_pc' = "awaiting"
            /\ ts_pc' = "validate"
            /\ UNCHANGED tool_result
       ELSE /\ ct_pc' = "done"
            /\ tool_result' = ToolExcept(TypeError("arguments"))
            /\ UNCHANGED ts_pc
    /\ UNCHANGED <<name, args>>
    /\ UNCH_ts /\ UNCH_att
    /\ UNCHANGED varsI

\* line 404: result["message"]; a result of None raises TypeError, caught at 405
call_tool_return ==
    /\ ct_pc = "awaiting"
    /\ ts_pc = "returned"
    /\ ct_pc' = "done"
    /\ tool_result' = IF ts_result = NoneResult
                      THEN ToolExcept(TypeError("result"))
                      ELSE ToolSuccessText(ts_result)
    /\ UNCHANGED <<name, args, ts_pc>>
    /\ UNCH_ts /\ UNCH_att
    /\ UNCHANGED varsI

\* lines 405-407
call_tool_except ==
    /\ ct_pc = "awaiting"
    /\ ts_pc = "raised"
    /\ ct_pc' = "done"
    /\ tool_result' = ToolExcept(ts_raised)
    /\ UNCHANGED <<name, args, ts_pc>>
    /\ UNCH_ts /\ UNCH_att
    /\ UNCHANGED varsI

(***************************************************************************)
(* The page of one attempt and the locals of _smart_scroll_page.           *)
(* Document and viewport heights are in pixels. Scroll offsets             *)
(* (scroll_target, scroll_step, current_scroll) are in fifths of a pixel,  *)
(* so that 0.8 * client_height is the integer 4 * client_height.           *)
(***************************************************************************)
Min(a, b) == IF a < b THEN a ELSE b
Max(a, b) == IF a > b THEN a ELSE b
Fifths(px) == 5 * px

\* before browser.new_context
NoPage ==
    [viewport |-> [width |-> 0, height |-> 0], scale |-> 0,
     context_height |-> 0]      \* the viewport height the context was created with

\* line 246
max_scrolls == 20

\* _smart_scroll_page is not running
NoScroll ==
    [pc |-> "none",             \* "loop", "returned" (after line 318), "aborted" (line 320)
     initial_height |-> 0, client_height |-> 0, scroll_target |-> 0,
     scroll_step |-> 0, current_scroll |-> 0, scroll_count |-> 0]

NoImage == [width |-> 0, height |-> 0]

\* before the adaptive step and the screenshot
NoCapture ==
    [page_height |-> -1,        \* line 539, -1 while unset
     resized |-> FALSE,         \* line 542 took effect
     taken |-> FALSE,           \* line 579 took effect
     full_page |-> FALSE,       \* screenshot_options["full_page"], line 572
     viewport_height |-> 0,     \* the viewport height when the screenshot was taken
     raster |-> NoImage]        \* the pixel dimensions of the screenshot


\* the step `step` of the attempt has completed
Did(step) == steps' = Append(steps, step)

\* document.documentElement.scrollHeight as a page.evaluate reads it: the
\* document may have changed its height by one of document.growth since the
\* last read
ReadHeights == {Max(0, document.scrollHeight + g) : g \in document.growth}

(***************************************************************************)
(* take_screenshot, lines 409-450.                                         *)
(***************************************************************************)
\* lines 422-434: validation, then output_path.parent.mkdir (which may raise)
take_screenshot_validate ==
    /\ ts_pc = "validate"
    /\ LET err == ValidationError(args) IN
       IF err # NoError
       THEN /\ ts_pc' = "raised"
            /\ ts_raised' = err
       ELSE \E mkdir_ok \in BOOLEAN :
              IF mkdir_ok
              THEN ts_pc' = "loop" /\ UNCHANGED ts_raised
              ELSE ts_pc' = "raised" /\ ts_raised' = OSError("mkdir")
    /\ UNCHANGED <<name, args, ct_pc, tool_result>>
    /\ UNCHANGED <<attempt, attempts_made, sleeps, last_error, ts_result>>
    /\ UNCH_att
    /\ UNCHANGED varsI

\* line 438: for attempt in range(max_retries); line 440 enters the attempt.
\* When the range is exhausted without a return or a raise the function falls
\* off its end and returns None.
take_screenshot_loop ==
    /\ ts_pc = "loop"
    /\ IF attempt < args.max_retries
       THEN /\ ts_pc' = "attempt"
            /\ att_pc' = "launch"
            /\ attempts_made' = attempts_made + 1
            /\ page' = NoPage
            /\ scroll' = NoScroll
            /\ capture' = NoCapture
            /\ steps' = <<>>
            /\ UNCHANGED ts_result
       ELSE /\ ts_pc' = "returned"
            /\ ts_result' = NoneResult
            /\ UNCHANGED <<att_pc, attempts_made, page, scroll, capture, steps>>
    /\ UNCHANGED <<name, args, ct_pc, tool_result>>
    /\ UNCHANGED <<attempt, sleeps, last_error, ts_raised>>
    /\ UNCHANGED <<pending, browsers, launched, out_file, soft_timeout, document, image>>
    /\ UNCHANGED varsI

\* line 447, then the next iteration of line 438
take_screenshot_sleep ==
    /\ ts_pc = "sleep"
    /\ sleeps' = sleeps + 1
    /\ attempt' = attempt + 1
    /\ ts_pc' = "loop"
    /\ UNCHANGED <<name, args, ct_pc, tool_result>>
    /\ UNCHANGED <<attempts_made, last_error, ts_raised, ts_result>>
    /\ UNCH_att
    /\ UNCHANGED varsI

\* lines 443-450: the except clause of the retry loop, for exception e
RetryExcept(e) ==
    /\ last_error' = e
    /\ IF attempt < args.max_retries - 1
       THEN ts_pc' = "sleep" /\ UNCHANGED ts_raised
       ELSE ts_pc' = "raised" /\ ts_raised' = e

(***************************************************************************)
(* _take_screenshot_attempt, lines 452-594.                                *)
(***************************************************************************)
UNCH_call == UNCHANGED <<name, args, ct_pc, tool_result>>
UNCH_page == UNCHANGED <<document, page, scroll, capture, image>>

\* lines 464-475: a failed launch raises before the try block: no browser,
\* no finally
attempt_launch ==
    /\ ts_pc = "attempt" /\ att_pc = "launch"
    /\ \E ok \in BOOLEAN :
        IF ok
        THEN /\ browsers' = browsers \cup {attempt + 1}
             /\ launched' = launched + 1
             /\ att_pc' = "context"
             /\ Did("launch")
             /\ UNCHANGED <<ts_pc, last_error, ts_raised>>
        ELSE /\ att_pc' = "none"
             /\ RetryExcept(AttemptError("launch", attempt + 1))
             /\ UNCHANGED <<browsers, launched, steps>>
    /\ UNCH_call
    /\ UNCHANGED <<attempt, attempts_made, sleeps, ts_result>>
    /\ UNCHANGED <<pending, out_file, soft_timeout>>
    /\ UNCH_page
    /\ UNCHANGED varsI

\* a step inside the try block that either completes or raises (line 590)
RaisingStep(here, next) ==
    /\ ts_pc = "attempt" /\ att_pc = here
    /\ \E ok \in BOOLEAN :
        IF ok
        THEN att_pc' = next /\ Did(here) /\ UNCHANGED pending
        ELSE /\ att_pc' = "finally"
             /\ pending' = AttemptError(here, attempt + 1)
             /\ UNCHANGED steps
    /\ UNCH_call
    /\ UNCHANGED ts_pc /\ UNCH_ts
    /\ UNCHANGED <<browsers, launched, out_file, soft_timeout>>
    /\ UNCH_page
    /\ UNCHANGED varsI

SoftWaitRaises(here, next) ==
    /\ ts_pc = "attempt" /\ att_pc = here
    /\ \E timeout \in BOOLEAN :
        /\ soft_timeout' = (soft_timeout \/ timeout)
        /\ IF timeout
           THEN /\ att_pc' = "finally"
                /\ pending' = AttemptError(here, attempt + 1)
                /\ UNCHANGED steps
           ELSE att_pc' = next /\ Did(here) /\ UNCHANGED pending
    /\ UNCH_call
    /\ UNCHANGED ts_pc /\ UNCH_ts
    /\ UNCHANGED <<browsers, launched, out_file>>
    /\ UNCH_page
    /\ UNCHANGED varsI

\* a best-effort wait: its timeout is caught where it is raised
SoftWait(here, next) ==
    /\ ts_pc = "attempt" /\ att_pc = here
    /\ \E timeout \in BOOLEAN : soft_timeout' = (soft_timeout \/ timeout)
    /\ att_pc' = next
    /\ Did(here)
    /\ UNCH_call
    /\ UNCHANGED ts_pc /\ UNCH_ts
    /\ UNCHANGED <<pending, browsers, launched, out_file>>
    /\ UNCH_page
    /\ UNCHANGED varsI

\* lines 332-336
DEVICE_MAPPING == [desktop |-> "None", mobile |-> "iPhone 13", tablet |-> "iPad Pro"]

\* p.devices[device_name]: the viewport and the scale factor of a built-in
\* profile of the engine
DeviceProfile(device_name) ==
    IF device_name = "iPhone 13"
    THEN [viewport |-> [width |-> 390, height |-> 664], scale |-> 3]
    ELSE [viewport |-> [width |-> 1024, height |-> 1366], scale |-> 2]

\* lines 479-501: the viewport and device_scale_factor of the new context;
\* in_devices is `device_name in p.devices`
ContextPage(a, in_devices) ==
    IF a.device # "desktop" /\ a.device \in DOMAIN DEVICE_MAPPING /\ in_devices
    THEN LET profile == DeviceProfile(DEVICE_MAPPING[a.device])
         IN  [viewport |-> profile.viewport, scale |-> profile.scale,
              context_height |-> profile.viewport.height]
    ELSE [viewport |-> [width |-> a.width, height |-> a.height],
          scale |-> a.dpi_scale, context_height |-> a.height]

\* lines 478-501: new_context, _add_stealth_script, new_page
attempt_context ==
    /\ ts_pc = "attempt" /\ att_pc = "context"
    /\ \E ok, in_devices \in BOOLEAN :
        IF ok
        THEN /\ att_pc' = "route"
             /\ page' = ContextPage(args, in_devices)
             /\ Did("context")
             /\ UNCHANGED pending
        ELSE /\ att_pc' = "finally"
             /\ pending' = AttemptError("context", attempt + 1)
             /\ UNCHANGED <<page, steps>>
    /\ UNCH_call
    /\ UNCHANGED ts_pc /\ UNCH_ts
    /\ UNCHANGED <<browsers, launched, out_file, soft_timeout>>
    /\ UNCHANGED <<document, scroll, capture, image>>
    /\ UNCHANGED varsI

attempt_route_then_wait == RaisingStep("route", "wait_load")
\* lines 503-509: page.route("**/*", _handle_resource_cache)
attempt_route == RaisingStep("route", "goto")
\* lines 511-514: page.goto
attempt_goto == RaisingStep("goto", "wait_load")
\* lines 516-521
attempt_wait_load == SoftWait("wait_load", "wait_idle")
\* lines 523-528
attempt_wait_idle == SoftWait("wait_idle", "scroll")

(***************************************************************************)
(* _smart_scroll_page(page, height), lines 202-322, called at line 532.    *)
(* Every exception is caught at line 320 and the function returns.         *)
(***************************************************************************)
\* lines 229-236, in fifths of a pixel
ScrollTarget(target_height, initial_height) ==
    IF target_height = 0
    THEN Fifths(initial_height)
    ELSE Fifths(Min(target_height, initial_height))

\* lines 240-243, in fifths of a pixel: 0.8 * client_height, or 600
ScrollStep(client_height) ==
    IF client_height > 0 THEN 4 * client_height ELSE Fifths(600)

LoopConditionNoCap(s) == s.current_scroll < s.scroll_target
\* line 248
LoopCondition(s) == s.current_scroll < s.scroll_target /\ s.scroll_count < max_scrolls

\* line 250
NextScroll(s) == Min(s.current_scroll + s.scroll_step, s.scroll_target)

GrownTargetAnyMode(s, target_height, new_height) ==
    IF new_height > s.initial_height THEN Fifths(new_height) ELSE s.scroll_target
\* lines 279-284: the target after new_height was read
GrownTarget(s, target_height, new_height) ==
    IF new_height > s.initial_height /\ target_height = 0
    THEN Fifths(new_height)
    ELSE s.scroll_target

\* the step of the attempt that follows the call of line 532
AfterScroll == IF args.height = 0 THEN "adaptive" ELSE "final_wait"

\* _smart_scroll_page returns to line 532, after line 318 ("returned") or from
\* the except clause of line 320 ("aborted"); its locals are gone
ScrollReturns(how) ==
    /\ scroll' = [NoScroll EXCEPT !.pc = how]
    /\ att_pc' = AfterScroll
    /\ Did("scroll")

\* lines 532 and 210-246: the call, the first page.evaluate and the locals
attempt_scroll ==
    /\ ts_pc = "attempt" /\ att_pc = "scroll" /\ scroll.pc = "none"
    /\ \/ /\ ScrollReturns("aborted")
          /\ UNCHANGED document
       \/ \E h \in ReadHeights :
            /\ document' = [document EXCEPT !.scrollHeight = h]
            /\ scroll' = [pc |-> "loop",
                          initial_height |-> h,
                          client_height |-> page.viewport.height,
                          scroll_target |-> ScrollTarget(args.height, h),
                          scroll_step |-> ScrollStep(page.viewport.height),
                          current_scroll |-> 0,
                          scroll_count |-> 0]
            /\ UNCHANGED <<att_pc, steps>>
    /\ UNCH_call
    /\ UNCHANGED ts_pc /\ UNCH_ts
    /\ UNCHANGED <<pending, browsers, launched, out_file, soft_timeout>>
    /\ UNCHANGED <<page, capture, image>>
    /\ UNCHANGED varsI

\* lines 248-286: one iteration of the loop. window.scrollTo may raise; the
\* timeout of the wait of line 262 is caught at line 264; the page.evaluate of
\* line 269 may raise.
smart_scroll_iteration ==
    /\ ts_pc = "attempt" /\ att_pc = "scroll" /\ scroll.pc = "loop"
    /\ LoopCondition(scroll)
    /\ LET s == [scroll EXCEPT !.scroll_count = scroll.scroll_count + 1]
           next_scroll == NextScroll(s)
       IN  \/ /\ ScrollReturns("aborted")
              /\ UNCHANGED <<document, soft_timeout>>
           \/ /\ \E timeout \in BOOLEAN : soft_timeout' = (soft_timeout \/ timeout)
              /\ \/ /\ ScrollReturns("aborted")
                    /\ UNCHANGED document
                 \/ \E new_height \in ReadHeights :
                      /\ document' = [document EXCEPT !.scrollHeight = new_height]
                      /\ scroll' = [s EXCEPT
                            !.initial_height = Max(s.initial_height, new_height),
                            !.scroll_target = GrownTarget(s, args.height, new_height),
                            !.current_scroll = next_scroll]
                      /\ UNCHANGED <<att_pc, steps>>
    /\ UNCH_call
    /\ UNCHANGED ts_pc /\ UNCH_ts
    /\ UNCHANGED <<pending, browsers, launched, out_file>>
    /\ UNCHANGED <<page, capture, image>>
    /\ UNCHANGED varsI

\* lines 288-322: the loop has ended; the final scrollTo (which may raise), the
\* wait of line 302 (timeout caught at line 304) and the last page.evaluate
smart_scroll_finalize ==
    /\ ts_pc = "attempt" /\ att_pc = "scroll" /\ scroll.pc = "loop"
    /\ ~LoopCondition(scroll)
    /\ \/ /\ ScrollReturns("aborted")
          /\ UNCHANGED <<document, soft_timeout>>
       \/ /\ \E timeout \in BOOLEAN : soft_timeout' = (soft_timeout \/ timeout)
          /\ ScrollReturns("returned")
          /\ \E h \in ReadHeights : document' = [document EXCEPT !.scrollHeight = h]
    /\ UNCH_call
    /\ UNCHANGED ts_pc /\ UNCH_ts
    /\ UNCHANGED <<pending, browsers, launched, out_file>>
    /\ UNCHANGED <<page, capture, image>>
    /\ UNCHANGED varsI

AdaptiveViewportKept(viewport, page_height) == viewport
\* line 542: page.set_viewport_size({"width": width, "height": page_height})
AdaptiveViewport(viewport, page_height) ==
    [width |-> args.width, height |-> page_height]

\* lines 534-554, only when height == 0: page.evaluate reads the document
\* height, set_viewport_size resizes the viewport, then a best-effort wait;
\* an exception of the first two is caught at line 553
attempt_adaptive ==
    /\ ts_pc = "attempt" /\ att_pc = "adaptive"
    /\ \/ UNCHANGED <<document, page, capture, soft_timeout>>
       \/ \E page_height \in ReadHeights :
            /\ document' = [document EXCEPT !.scrollHeight = page_height]
            /\ \/ /\ capture' = [capture EXCEPT !.page_height = page_height]
                  /\ UNCHANGED <<page, soft_timeout>>
               \/ /\ capture' = [capture EXCEPT !.page_height = page_height,
                                                !.resized = TRUE]
                  /\ page' = [page EXCEPT
                        !.viewport = AdaptiveViewport(page.viewport, page_height)]
                  /\ \E timeout \in BOOLEAN : soft_timeout' = (soft_timeout \/ timeout)
    /\ att_pc' = "final_wait"
    /\ Did("adaptive")
    /\ UNCH_call
    /\ UNCHANGED ts_pc /\ UNCH_ts
    /\ UNCHANGED <<pending, browsers, launched, out_file>>
    /\ UNCHANGED <<scroll, image>>
    /\ UNCHANGED varsI

\* lines 556-561
attempt_final_wait == SoftWait("final_wait", "capture")

\* lines 571-572
FullPage(height) == height = 0

\* the pixel dimensions of the raster page.screenshot writes: the whole
\* document or the viewport, in device pixels
Raster(full_page) ==
    [width |-> page.viewport.width * page.scale,
     height |-> (IF full_page
                 THEN Max(document.scrollHeight, page.viewport.height)
                 ELSE page.viewport.height) * page.scale]

ResizeNeededAnyHeight(dpi_scale, height, exists) == dpi_scale # 1 /\ exists
\* line 582
ResizeNeeded(dpi_scale, height, exists) == dpi_scale # 1 /\ height # 0 /\ exists

\* lines 563-588: page.screenshot writes output_path; then the resize condition
\* of line 582; without a resize the attempt returns (line 585)
attempt_capture ==
    /\ ts_pc = "attempt" /\ att_pc = "capture"
    /\ \E ok \in BOOLEAN :
        IF ok
        THEN /\ out_file' = "captured"
             /\ image' = Raster(FullPage(args.height))
             /\ capture' = [capture EXCEPT !.taken = TRUE,
                                           !.full_page = FullPage(args.height),
                                           !.viewport_height = page.viewport.height,
                                           !.raster = Raster(FullPage(args.height))]
             /\ att_pc' = IF ResizeNeeded(args.dpi_scale, args.height, TRUE)
                          THEN "resize" ELSE "finally"
             /\ Did("capture")
             /\ UNCHANGED pending
        ELSE /\ att_pc' = "finally"
             /\ pending' = AttemptError("capture", attempt + 1)
             /\ UNCHANGED <<out_file, image, capture, steps>>
    /\ UNCH_call
    /\ UNCHANGED ts_pc /\ UNCH_ts
    /\ UNCHANGED <<browsers, launched, soft_timeout>>
    /\ UNCHANGED <<document, page, scroll>>
    /\ UNCHANGED varsI

\* line 609: img.resize((target_width, target_height), ...)
Resized(target_width, target_height) == [width |-> target_width, height |-> target_height]

\* lines 583, 596-627: _resize_image rewrites output_path in place; when it
\* raises, the file is the capture as it was or a file cut short by the save
attempt_resize ==
    /\ ts_pc = "attempt" /\ att_pc = "resize"
    /\ \/ /\ out_file' = "resized"
          /\ image' = Resized(args.width, args.height)
          /\ Did("resize")
          /\ UNCHANGED pending
       \/ /\ \/ out_file' = "captured" /\ UNCHANGED image
             \/ out_file' = "corrupt" /\ image' = NoImage
          /\ pending' = AttemptError("resize", attempt + 1)
          /\ UNCHANGED steps
    /\ att_pc' = "finally"
    /\ UNCH_call
    /\ UNCHANGED ts_pc /\ UNCH_ts
    /\ UNCHANGED <<browsers, launched, soft_timeout>>
    /\ UNCHANGED <<document, page, scroll, capture>>
    /\ UNCHANGED varsI

FinallyClosesOnSuccessOnly(bs, n, e) == IF e = NoError THEN bs \ {n} ELSE bs
\* lines 593-594: finally: await browser.close(); bs are the open browsers, n the
\* attempt, e the exception in flight
Finally(bs, n, e) == bs \ {n}

\* lines 585-594: the finally block runs, then the attempt returns its result
\* (line 440) or its exception reaches the except clause of the retry loop
attempt_finally ==
    /\ ts_pc = "attempt" /\ att_pc = "finally"
    /\ browsers' = Finally(browsers, attempt + 1, pending)
    /\ att_pc' = "none"
    /\ pending' = NoError
    /\ soft_timeout' = FALSE
    /\ Did("close")
    /\ IF pending = NoError
       THEN /\ ts_pc' = "returned"
            /\ ts_result' = SuccessResult(args.output)
            /\ UNCHANGED <<last_error, ts_raised>>
       ELSE /\ RetryExcept(pending)
            /\ UNCHANGED ts_result
    /\ UNCH_call
    /\ UNCHANGED <<attempt, attempts_made, sleeps>>
    /\ UNCHANGED <<launched, out_file>>
    /\ UNCH_page
    /\ UNCHANGED varsI

(***************************************************************************)
(* Module-level configuration, lines 23-97.                                *)
(***************************************************************************)
\* line 25
CACHE_EXPIRE_TIME == 24 * 60 * 60

CACHEABLE_EXTENSIONS ==
    { <<"c","s","s">>   \* css
    , <<"e","o","t">>   \* eot
    , <<"g","i","f">>   \* gif
    , <<"i","c","o">>   \* ico
    , <<"j","p","e","g">>   \* jpeg
    , <<"j","p","g">>   \* jpg
    , <<"j","s">>   \* js
    , <<"j","s","o","n">>   \* json
    , <<"p","n","g">>   \* png
    , <<"s","v","g">>   \* svg
    , <<"t","t","f">>   \* ttf
    , <<"w","e","b","p">>   \* webp
    , <<"w","o","f","f">>   \* woff
    , <<"w","o","f","f","2">>   \* woff2
    }

BLOCKED_EXACT_DOMAINS ==
    { <<"a","n","a","l","y","t","i","c","s",".","g","o","o","g","l","e",".","c","o","m">>   \* analytics.google.com
    , <<"a","p","i",".","a","m","p","l","i","t","u","d","e",".","c","o","m">>   \* api.amplitude.com
    , <<"a","p","i",".","g","r","o","w","i","n","g","i","o",".","c","o","m">>   \* api.growingio.com
    , <<"a","p","i",".","m","i","x","p","a","n","e","l",".","c","o","m">>   \* api.mixpanel.com
    , <<"a","p","i",".","s","e","g","m","e","n","t",".","i","o">>   \* api.segment.io
    , <<"a","s","s","e","t","s",".","g","r","o","w","i","n","g","i","o",".","c","o","m">>   \* assets.growingio.com
    , <<"c",".","c","l","a","r","i","t","y",".","m","s">>   \* c.clarity.ms
    , <<"c",".","c","n","z","z",".","c","o","m">>   \* c.cnzz.com
    , <<"c","d","n",".","a","m","p","l","i","t","u","d","e",".","c","o","m">>   \* cdn.amplitude.com
    , <<"c","d","n",".","m","o","u","s","e","f","l","o","w",".","c","o","m">>   \* cdn.mouseflow.com
    , <<"c","d","n",".","m","x","p","n","l",".","c","o","m">>   \* cdn.mxpnl.com
    , <<"c","d","n",".","s","e","g","m","e","n","t",".","c","o","m">>   \* cdn.segment.com
    , <<"c","d","n",".","t","a","b","o","o","l","a",".","c","o","m">>   \* cdn.taboola.com
    , <<"c","l","a","r","i","t","y",".","m","s">>   \* clarity.ms
    , <<"c","n","z","z",".","m","m","s","t","a","t",".","c","o","m">>   \* cnzz.mmstat.com
    , <<"c","o","n","n","e","c","t",".","f","a","c","e","b","o","o","k",".","n","e","t">>   \* connect.facebook.net
    , <<"e","d","g","e",".","f","u","l","l","s","t","o","r","y",".","c","o","m">>   \* edge.fullstory.com
    , <<"f","s",".","f","u","l","l","s","t","o","r","y",".","c","o","m">>   \* fs.fullstory.com
    , <<"g","o","o","g","l","e","-","a","n","a","l","y","t","i","c","s",".","c","o","m">>   \* google-analytics.com
    , <<"g","o","o","g","l","e","a","d","s",".","g",".","d","o","u","b","l","e","c","l","i","c","k",".","n","e","t">>   \* googleads.g.doubleclick.net
    , <<"g","o","o","g","l","e","a","d","s","e","r","v","i","c","e","s",".","c","o","m">>   \* googleadservices.com
    , <<"g","o","o","g","l","e","s","y","n","d","i","c","a","t","i","o","n",".","c","o","m">>   \* googlesyndication.com
    , <<"g","o","o","g","l","e","t","a","g",".","c","o","m">>   \* googletag.com
    , <<"g","o","o","g","l","e","t","a","g","m","a","n","a","g","e","r",".","c","o","m">>   \* googletagmanager.com
    , <<"g","o","o","g","l","e","t","a","g","s","e","r","v","i","c","e","s",".","c","o","m">>   \* googletagservices.com
    , <<"h","m",".","b","a","i","d","u",".","c","o","m">>   \* hm.baidu.com
    , <<"h","m","c","d","n",".","b","a","i","d","u",".","c","o","m">>   \* hmcdn.baidu.com
    , <<"j","s",".","u","s","e","r","s",".","5","1",".","l","a">>   \* js.users.51.la
    , <<"p","i","x","e","l",".","q","u","a","n","t","s","e","r","v","e",".","c","o","m">>   \* pixel.quantserve.com
    , <<"s","4",".","c","n","z","z",".","c","o","m">>   \* s4.cnzz.com
    , <<"s","b",".","s","c","o","r","e","c","a","r","d","r","e","s","e","a","r","c","h",".","c","o","m">>   \* sb.scorecardresearch.com
    , <<"s","c","r","i","p","t",".","c","r","a","z","y","e","g","g",".","c","o","m">>   \* script.crazyegg.com
    , <<"s","c","r","i","p","t",".","h","o","t","j","a","r",".","c","o","m">>   \* script.hotjar.com
    , <<"s","d","k",".","j","p","u","s","h",".","c","n">>   \* sdk.jpush.cn
    , <<"s","d","k",".","t","a","l","k","i","n","g","d","a","t","a",".","c","o","m">>   \* sdk.talkingdata.com
    , <<"s","e","c","u","r","e","p","u","b","a","d","s",".","g",".","d","o","u","b","l","e","c","l","i","c","k",".","n","e","t">>   \* securepubads.g.doubleclick.net
    , <<"s","s","l",".","g","o","o","g","l","e","-","a","n","a","l","y","t","i","c","s",".","c","o","m">>   \* ssl.google-analytics.com
    , <<"s","t","a","t","i","c",".","h","o","t","j","a","r",".","c","o","m">>   \* static.hotjar.com
    , <<"s","t","a","t","i","c",".","s","e","n","s","o","r","s","d","a","t","a",".","c","n">>   \* static.sensorsdata.cn
    , <<"s","t","a","t","s",".","g",".","d","o","u","b","l","e","c","l","i","c","k",".","n","e","t">>   \* stats.g.doubleclick.net
    , <<"t","o","n","g","j","i",".","b","a","i","d","u",".","c","o","m">>   \* tongji.baidu.com
    , <<"v","6","-","w","e","b",".","5","1",".","l","a">>   \* v6-web.51.la
    , <<"w",".","c","n","z","z",".","c","o","m">>   \* w.cnzz.com
    , <<"w","i","d","g","e","t","s",".","o","u","t","b","r","a","i","n",".","c","o","m">>   \* widgets.outbrain.com
    , <<"w","w","w",".","c","l","a","r","i","t","y",".","m","s">>   \* www.clarity.ms
    , <<"w","w","w",".","g","o","o","g","l","e","-","a","n","a","l","y","t","i","c","s",".","c","o","m">>   \* www.google-analytics.com
    , <<"w","w","w",".","g","o","o","g","l","e","t","a","g","m","a","n","a","g","e","r",".","c","o","m">>   \* www.googletagmanager.com
    }

BLOCKED_FULL_DOMAINS ==
    { <<"5","1",".","l","a">>   \* 51.la
    , <<"a","m","a","z","o","n","-","a","d","s","y","s","t","e","m",".","c","o","m">>   \* amazon-adsystem.com
    , <<"a","m","p","l","i","t","u","d","e",".","c","o","m">>   \* amplitude.com
    , <<"c","n","z","z",".","c","o","m">>   \* cnzz.com
    , <<"c","r","a","z","y","e","g","g",".","c","o","m">>   \* crazyegg.com
    , <<"d","o","u","b","l","e","c","l","i","c","k",".","n","e","t">>   \* doubleclick.net
    , <<"f","a","c","e","b","o","o","k",".","n","e","t">>   \* facebook.net
    , <<"f","b","c","d","n",".","n","e","t">>   \* fbcdn.net
    , <<"f","u","l","l","s","t","o","r","y",".","c","o","m">>   \* fullstory.com
    , <<"g","o","o","g","l","e","s","y","n","d","i","c","a","t","i","o","n",".","c","o","m">>   \* googlesyndication.com
    , <<"g","r","o","w","i","n","g","i","o",".","c","o","m">>   \* growingio.com
    , <<"h","o","t","j","a","r",".","c","o","m">>   \* hotjar.com
    , <<"j","p","u","s","h",".","c","n">>   \* jpush.cn
    , <<"m","i","x","p","a","n","e","l",".","c","o","m">>   \* mixpanel.com
    , <<"m","o","u","s","e","f","l","o","w",".","c","o","m">>   \* mouseflow.com
    , <<"o","u","t","b","r","a","i","n",".","c","o","m">>   \* outbrain.com
    , <<"q","u","a","n","t","s","e","r","v","e",".","c","o","m">>   \* quantserve.com
    , <<"s","c","o","r","e","c","a","r","d","r","e","s","e","a","r","c","h",".","c","o","m">>   \* scorecardresearch.com
    , <<"s","e","g","m","e","n","t",".","c","o","m">>   \* segment.com
    , <<"s","e","n","s","o","r","s","d","a","t","a",".","c","n">>   \* sensorsdata.cn
    , <<"t","a","b","o","o","l","a",".","c","o","m">>   \* taboola.com
    , <<"t","a","l","k","i","n","g","d","a","t","a",".","c","o","m">>   \* talkingdata.com
    , <<"u","m","e","n","g",".","c","o","m">>   \* umeng.com
    }

BLOCKED_PATTERNS ==
    { <<"/","a","d","s","e","n","s","e","/">>   \* /adsense/
    , <<"/","a","m","a","z","o","n","-","a","d","s","y","s","t","e","m","/">>   \* /amazon-adsystem/
    , <<"/","a","m","p","l","i","t","u","d","e">>   \* /amplitude
    , <<"/","a","n","a","l","y","t","i","c","s",".","j","s">>   \* /analytics.js
    , <<"/","a","n","a","l","y","t","i","c","s","/">>   \* /analytics/
    , <<"/","c","l","a","r","i","t","y",".","j","s">>   \* /clarity.js
    , <<"/","c","n","z","z">>   \* /cnzz
    , <<"/","c","o","n","n","e","c","t",".","f","a","c","e","b","o","o","k",".","n","e","t","/">>   \* /connect.facebook.net/
    , <<"/","d","o","u","b","l","e","c","l","i","c","k","/">>   \* /doubleclick/
    , <<"/","f","a","c","e","b","o","o","k",".","n","e","t","/">>   \* /facebook.net/
    , <<"/","f","b","e","v","e","n","t","s",".","j","s">>   \* /fbevents.js
    , <<"/","f","b","p","i","x","e","l">>   \* /fbpixel
    , <<"/","g","a",".","j","s">>   \* /ga.js
    , <<"/","g","o","o","g","l","e","a","d","s","e","r","v","i","c","e","s","/">>   \* /googleadservices/
    , <<"/","g","o","o","g","l","e","s","y","n","d","i","c","a","t","i","o","n","/">>   \* /googlesyndication/
    , <<"/","g","o","o","g","l","e","t","a","g","/">>   \* /googletag/
    , <<"/","g","r","o","w","i","n","g","i","o">>   \* /growingio
    , <<"/","g","t","a","g","/">>   \* /gtag/
    , <<"/","g","t","m",".","j","s">>   \* /gtm.js
    , <<"/","h","m",".","j","s">>   \* /hm.js
    , <<"/","h","o","t","j","a","r">>   \* /hotjar
    , <<"/","m","i","x","p","a","n","e","l">>   \* /mixpanel
    , <<"/","o","u","t","b","r","a","i","n","/">>   \* /outbrain/
    , <<"/","s","e","g","m","e","n","t">>   \* /segment
    , <<"/","s","e","n","s","o","r","s","d","a","t","a">>   \* /sensorsdata
    , <<"/","t","a","b","o","o","l","a","/">>   \* /taboola/
    , <<"/","t","o","n","g","j","i">>   \* /tongji
    , <<"/","u","m","e","n","g">>   \* /umeng
    }

\* https://cdn.example.com/app.js
u_app_js == <<"h","t","t","p","s",":","/","/","c","d","n",".","e","x","a","m","p","l","e",".","c","o","m","/","a","p","p",".","j","s">>
\* https://cdn.example.com/Style.CSS?v=2
u_style == <<"h","t","t","p","s",":","/","/","c","d","n",".","e","x","a","m","p","l","e",".","c","o","m","/","S","t","y","l","e",".","C","S","S","?","v","=","2">>
\* https://example.com/index.html
u_page == <<"h","t","t","p","s",":","/","/","e","x","a","m","p","l","e",".","c","o","m","/","i","n","d","e","x",".","h","t","m","l">>
\* https://doubleclick.net/ad.js
u_dc == <<"h","t","t","p","s",":","/","/","d","o","u","b","l","e","c","l","i","c","k",".","n","e","t","/","a","d",".","j","s">>
\* http://ads.g.doubleclick.net/pixel.gif
u_dc_sub == <<"h","t","t","p",":","/","/","a","d","s",".","g",".","d","o","u","b","l","e","c","l","i","c","k",".","n","e","t","/","p","i","x","e","l",".","g","i","f">>
\* https://doubleclick.net:8443/ad.js
u_dc_port == <<"h","t","t","p","s",":","/","/","d","o","u","b","l","e","c","l","i","c","k",".","n","e","t",":","8","4","4","3","/","a","d",".","j","s">>
\* https://notdoubleclick.net/
u_notdc == <<"h","t","t","p","s",":","/","/","n","o","t","d","o","u","b","l","e","c","l","i","c","k",".","n","e","t","/">>
\* https://hm.baidu.com/h.png
u_exact == <<"h","t","t","p","s",":","/","/","h","m",".","b","a","i","d","u",".","c","o","m","/","h",".","p","n","g">>
\* https://www.baidu.com/s?wd=x.png
u_sibling == <<"h","t","t","p","s",":","/","/","w","w","w",".","b","a","i","d","u",".","c","o","m","/","s","?","w","d","=","x",".","p","n","g">>
\* https://a.hm.baidu.com/x.js
u_exact_sub == <<"h","t","t","p","s",":","/","/","a",".","h","m",".","b","a","i","d","u",".","c","o","m","/","x",".","j","s">>
\* https://cdn.example.com/GTAG/lib.js
u_gtag == <<"h","t","t","p","s",":","/","/","c","d","n",".","e","x","a","m","p","l","e",".","c","o","m","/","G","T","A","G","/","l","i","b",".","j","s">>

(***************************************************************************)
(* The requests a page issues: request.url (as the browser reports it) and *)
(* request.method.                                                         *)
(***************************************************************************)
MaxRequests == 2
MaxTicks == 2
\* the clock advances in steps of twelve hours
TickSeconds == 12 * 60 * 60

RequestUrls ==
    {u_app_js, u_style, u_page, u_dc, u_dc_sub, u_dc_port, u_notdc, u_exact,
     u_sibling, u_exact_sub, u_gtag}
Methods == {"GET", "POST"}
\* what a live fetch may answer
Bodies == {"v1", "v2"}
Responses == {[status |-> 200, body |-> "v1"], [status |-> 404, body |-> "v2"]}
NoResponse == [status |-> 0, body |-> "none"]

(***************************************************************************)
(* urlparse, os.path.splitext, md5 and the cache file name.                *)
(***************************************************************************)
\* line 111: urllib.parse.urlparse(url): scheme, netloc and path of a URL
urlparse(url) ==
    LET colon == FindAny(url, {":"}, 1)
        rest == SubSeq(url, colon + 1, Len(url))
        hasNetloc == startswith(rest, <<"/","/">>)
        netlocEnd == IF hasNetloc THEN FindAny(rest, {"/", "?", "#"}, 3) ELSE 1
        afterNetloc == SubSeq(rest, netlocEnd, Len(rest))
        pathEnd == FindAny(afterNetloc, {"?", "#"}, 1)
    IN  [scheme |-> lower(SubSeq(url, 1, colon - 1)),
         netloc |-> IF hasNetloc THEN SubSeq(rest, 3, netlocEnd - 1) ELSE <<>>,
         path |-> SubSeq(afterNetloc, 1, pathEnd - 1)]

\* os.path.splitext(path)[1]: from the last dot of the last path component,
\* leading dots of the component not counted
splitext_ext(path) ==
    LET sep == RFind(path, "/")
        dot == RFind(path, ".")
        lead == {i \in (sep + 1)..dot : \A j \in (sep + 1)..i : path[j] = "."}
    IN  IF dot > sep /\ dot \notin lead THEN SubSeq(path, dot, Len(path)) ELSE <<>>

\* line 150: os.path.splitext(parsed_url.path)[1][1:].lower()
ext_of(url) ==
    LET e == splitext_ext(urlparse(url).path)
    IN  lower(SubSeq(e, 2, Len(e)))

\* lines 99-101: the digest is kept abstract and collision-free
md5(text) == <<"md5", text>>

\* str.replace(old, new) for one-character old and new
replace(s, old, new) == [i \in 1..Len(s) |-> IF s[i] = old THEN new ELSE s[i]]

\* lines 158-161: the name of the cache file under CACHE_PATH
cache_filename(url) ==
    [netloc_safe |-> replace(replace(urlparse(url).netloc, ":", "-"), "/", "_"),
     url_hash |-> md5(url),
     ext |-> ext_of(url)]

(***************************************************************************)
(* The block rules, lines 115-139.                                         *)
(***************************************************************************)
blocked_exact_suffix(domain) ==
    \E d \in BLOCKED_EXACT_DOMAINS : domain = d \/ endswith(domain, <<".">> \o d)
\* line 119
blocked_exact(domain) == domain \in BLOCKED_EXACT_DOMAINS

\* lines 124-129
blocked_full(domain) ==
    \E blocked_domain \in BLOCKED_FULL_DOMAINS :
        domain = blocked_domain \/ endswith(domain, <<".">> \o blocked_domain)

\* lines 132-137
should_block_path(path) == \E pattern \in BLOCKED_PATTERNS : contains(path, pattern)

\* lines 111-139; domain is parsed_url.netloc.lower(), path parsed_url.path.lower()
should_block(url) ==
    LET parsed_url == urlparse(url)
        domain == lower(parsed_url.netloc)
        path == lower(parsed_url.path)
    IN  blocked_exact(domain) \/ blocked_full(domain) \/ should_block_path(path)

IsGetAlways(method) == TRUE
\* line 145
IsGet(method) == method = "GET"

\* line 153
cacheable(ext) == ext \in CACHEABLE_EXTENSIONS

FreshInclusive(file_age) == file_age <= CACHE_EXPIRE_TIME
FreshNever(file_age) == FALSE
\* line 167
Fresh(file_age) == file_age < CACHE_EXPIRE_TIME

\* what the handler computes from request.url alone (lines 110-161), per URL
Route ==
    [u \in RequestUrls |->
        [block |-> should_block(u), ext |-> ext_of(u), file |-> cache_filename(u)]]

(***************************************************************************)
(* The cache directory.                                                    *)
(***************************************************************************)
FileNames == {cache_filename(u) : u \in RequestUrls}
NoFile == [exists |-> FALSE, mtime |-> 0, body |-> "none"]
File(mtime, body) == [exists |-> TRUE, mtime |-> mtime, body |-> body]
\* the names the handler can have written: those of cacheable, unblocked URLs
WritableNames ==
    {Route[u].file : u \in {v \in RequestUrls : ~Route[v].block /\ cacheable(Route[v].ext)}}

(***************************************************************************)
(* One invocation of _handle_resource_cache(route), lines 103-200.         *)
(* pc: "idle" (not issued), "start", "fetch" (suspended in route.fetch()), *)
(* "body" (suspended in response.body()), "write" (the cache file is open  *)
(* for writing, line 186), "except" (in the handler of line 197), "done"   *)
(* (returned), "raised" (an exception left the handler).                   *)
(***************************************************************************)
IdleHandler ==
    [pc |-> "idle", url |-> <<>>, method |-> "none",
     id |-> 0,                  \* the request's number, in order of issue
     alone |-> FALSE,           \* no other handler was running when it was issued
     found |-> "none",          \* the cache file as the lookup found it: "absent",
                                \* "fresh" (age < 24 h) or "stale" (age >= 24 h)
     resolution |-> "none",     \* the route call that took effect
     resolved |-> 0,            \* how many route calls took effect
     source |-> "none",         \* of a fulfill: "cache" or "live"
     served |-> NoResponse,     \* what a fulfill gave the page
     looked_up |-> FALSE,       \* os.path.exists(cache_filepath) was evaluated
     saw_stale |-> FALSE,       \* line 171 was reached
     present_at_fetch |-> FALSE,\* the cache file existed when fetch was issued
     fetch_issued |-> FALSE,    \* route.fetch() was called
     response |-> NoResponse,   \* the live response
     store |-> "none",          \* lines 185-189: "ok", "open_failed", "write_failed"
     stat_failed |-> FALSE,     \* os.path.getmtime raised (line 177)
     remove_failed |-> FALSE,   \* os.remove raised (line 175)
     fault |-> "none"]          \* the call whose exception reached line 197

Running(h) == h.pc \in {"start", "fetch", "body", "write", "except"}

\* Handlers of one event loop interleave at their awaits only, and lines
\* 186-187 hold no await: the file between open and write is seen only by a
\* handler of another server process. Observed(r): there is such a handler.
Observed(r) == \E s \in DOMAIN handlers : event_loop[s] # event_loop[r]

\* the page issues a request and the engine calls the route handler; slot is a
\* handler slot no invocation is running in
issue_request ==
    /\ issued < MaxRequests
    /\ \E slot \in DOMAIN handlers, url \in RequestUrls, method \in Methods :
        /\ <<url, method>> \in page_requests
        /\ ~Running(handlers[slot])
        /\ handlers' = [handlers EXCEPT ![slot] =
              [IdleHandler EXCEPT !.pc = "start", !.url = url, !.method = method,
                                  !.id = issued + 1,
                                  !.alone = \A s \in DOMAIN handlers : ~Running(handlers[s])]]
    /\ issued' = issued + 1
    /\ UNCHANGED <<now, files, page_requests, event_loop>>
    /\ UNCHANGED varsC

\* time passes
tick ==
    /\ now < MaxTicks * TickSeconds
    /\ now' = now + TickSeconds
    /\ UNCHANGED <<files, handlers, issued, page_requests, event_loop>>
    /\ UNCHANGED varsC

RouteCallNoReturn(h, call, ok) ==
    IF ok
    THEN [h EXCEPT !.pc = "except", !.resolution = call, !.resolved = h.resolved + 1]
    ELSE [h EXCEPT !.pc = "except", !.fault = call]
\* an awaited route call of handler h either takes effect (the handler returns)
\* or raises into the except clause of line 197
RouteCall(h, call, ok) ==
    IF ok
    THEN [h EXCEPT !.pc = "done", !.resolution = call, !.resolved = h.resolved + 1]
    ELSE [h EXCEPT !.pc = "except", !.fault = call]

\* what is on disk when the handler looks: the file's true age against 24 hours
Found(f) ==
    IF ~f.exists THEN "absent"
    ELSE IF now - f.mtime >= 24 * 60 * 60 THEN "stale" ELSE "fresh"

\* lines 163-181 for a cacheable GET: the cache lookup, up to route.fulfill(path=)
\* or to the call of route.fetch(). Gives the handler and the file afterwards.
Lookup(h, f, stat_ok, remove_ok, fulfill_ok) ==
    LET h1 == [h EXCEPT !.looked_up = TRUE, !.found = Found(f)]
        toFetch(hh, ff) ==
            [handler |-> [hh EXCEPT !.pc = "fetch", !.fetch_issued = TRUE,
                                    !.present_at_fetch = ff.exists],
             file |-> ff]
    IN  IF ~f.exists THEN toFetch(h1, f)
        ELSE IF ~stat_ok THEN toFetch([h1 EXCEPT !.stat_failed = TRUE], f)
        ELSE IF Fresh(now - f.mtime)
        THEN [handler |->
                 IF fulfill_ok
                 THEN [h1 EXCEPT !.pc = "done", !.resolution = "fulfill",
                                 !.resolved = h1.resolved + 1,
                                 !.source = "cache",
                                 !.served = [status |-> 200, body |-> f.body]]
                 ELSE [h1 EXCEPT !.pc = "except", !.fault = "fulfill"],
              file |-> f]
        ELSE IF remove_ok THEN toFetch([h1 EXCEPT !.saw_stale = TRUE], NoFile)
        ELSE toFetch([h1 EXCEPT !.saw_stale = TRUE, !.remove_failed = TRUE], f)

\* lines 105-181: from the call of the handler to its first route call
handle_start(r) ==
    /\ handlers[r].pc = "start"
    /\ LET h == handlers[r]
           rt == Route[h.url]
       IN  \E call_ok, stat_ok, remove_ok \in BOOLEAN :
            IF rt.block
            THEN /\ handlers' = [handlers EXCEPT ![r] = RouteCall(h, "abort", call_ok)]
                 /\ UNCHANGED files
            ELSE IF ~IsGet(h.method) \/ ~cacheable(rt.ext)
            THEN /\ handlers' = [handlers EXCEPT ![r] = RouteCall(h, "continue", call_ok)]
                 /\ UNCHANGED files
            ELSE LET res == Lookup(h, files[rt.file], stat_ok, remove_ok, call_ok)
                 IN  /\ handlers' = [handlers EXCEPT ![r] = res.handler]
                     /\ files' = [files EXCEPT ![rt.file] = res.file]
    /\ UNCHANGED <<now, issued, page_requests, event_loop>>
    /\ UNCHANGED varsC

\* line 181: route.fetch() completes with a live response, or raises
handle_fetch(r) ==
    /\ handlers[r].pc = "fetch"
    /\ \/ \E resp \in Responses :
            handlers' = [handlers EXCEPT ![r].pc = "body", ![r].response = resp]
       \/ handlers' = [handlers EXCEPT ![r].pc = "except", ![r].fault = "fetch"]
    /\ UNCHANGED <<now, files, issued, page_requests, event_loop>>
    /\ UNCHANGED varsC

\* line 186: open(cache_filepath, 'wb') creates the file or cuts it to length 0
Open(f, ok) == IF ok THEN File(now, "partial") ELSE f

\* lines 185-189: open(cache_filepath, 'wb') and f.write(body); an exception is
\* logged and dropped. A failed write leaves a file cut short.
Store(f, body, outcome) ==
    IF outcome = "ok" THEN File(now, body)
    ELSE IF outcome = "write_failed" THEN File(now, "partial")
    ELSE f

StoreExceptPropagates(h, outcome) ==
    IF outcome = "ok" THEN [h EXCEPT !.store = outcome]
    ELSE [h EXCEPT !.store = outcome, !.pc = "except", !.fault = "store",
                   !.response = NoResponse]
\* lines 188-189: except Exception: the failure of the store is logged, and the
\* handler goes on
StoreExcept(h, outcome) == [h EXCEPT !.store = outcome]

\* lines 192-195: route.fulfill(response=response, body=body)
LiveFulfill(h, fulfill_ok) ==
    IF fulfill_ok
    THEN [h EXCEPT !.pc = "done", !.resolution = "fulfill", !.source = "live",
                   !.resolved = h.resolved + 1,
                   !.served = h.response, !.response = NoResponse]
    ELSE [h EXCEPT !.pc = "except", !.fault = "fulfill", !.response = NoResponse]

\* lines 185-195 after the store ended with `outcome`: what the except clause
\* of line 188 lets through reaches line 197, otherwise the fulfill follows
AfterStore(h, outcome, fulfill_ok) ==
    LET hs == StoreExcept(h, outcome)
    IN  IF hs.pc = "except" THEN hs ELSE LiveFulfill(hs, fulfill_ok)

\* lines 182-195: response.body() completes or raises; then the store and
\* route.fulfill(response=response, body=body). Where another process shares
\* the directory the step ends with the file open and empty (line 186).
handle_body(r) ==
    /\ handlers[r].pc = "body"
    /\ LET h == handlers[r]
           name_ == Route[h.url].file
       IN  \/ /\ handlers' = [handlers EXCEPT ![r].pc = "except", ![r].fault = "body",
                                              ![r].response = NoResponse]
              /\ UNCHANGED files
           \/ /\ Observed(r)
              /\ files' = [files EXCEPT ![name_] = Open(files[name_], TRUE)]
              /\ handlers' = [handlers EXCEPT ![r].pc = "write"]
           \/ \E outcome \in {"ok", "open_failed", "write_failed"}, fulfill_ok \in BOOLEAN :
                /\ Observed(r) => outcome = "open_failed"
                /\ files' = [files EXCEPT ![name_] = Store(files[name_], h.response.body, outcome)]
                /\ handlers' = [handlers EXCEPT ![r] = AfterStore(h, outcome, fulfill_ok)]
    /\ UNCHANGED <<now, issued, page_requests, event_loop>>
    /\ UNCHANGED varsC

\* lines 187-195: f.write(body) and the close of the file, then
\* route.fulfill(response=response, body=body)
handle_write(r) ==
    /\ handlers[r].pc = "write"
    /\ LET h == handlers[r]
           name_ == Route[h.url].file
       IN  \E outcome \in {"ok", "write_failed"}, fulfill_ok \in BOOLEAN :
            /\ files' = [files EXCEPT ![name_] = Store(files[name_], h.response.body, outcome)]
            /\ handlers' = [handlers EXCEPT ![r] = AfterStore(h, outcome, fulfill_ok)]
    /\ UNCHANGED <<now, issued, page_requests, event_loop>>
    /\ UNCHANGED varsC

ExceptCallAbort == "abort"
\* line 200: the route call of the except clause
ExceptCall == "continue"

\* lines 197-200: the except clause; its own route.continue_() may raise, and
\* then the exception leaves the handler
handle_except(r) ==
    /\ handlers[r].pc = "except"
    /\ \/ handlers' = [handlers EXCEPT ![r].pc = "done", ![r].resolution = ExceptCall,
                                        ![r].resolved = handlers[r].resolved + 1]
       \/ handlers' = [handlers EXCEPT ![r].pc = "raised"]
    /\ UNCHANGED <<now, files, issued, page_requests, event_loop>>
    /\ UNCHANGED varsC

(***************************************************************************)
(* The specifications.                                                     *)
(***************************************************************************)
\* a document of 1000 pixels that keeps its height
PageDocuments == {[scrollHeight |-> 1000, growth |-> {0}]}

\* documents that keep their height, grow by 700 pixels between two reads
\* (always or sometimes: lazy loading, infinite scroll), or shrink
SettleDocuments ==
    [scrollHeight : {0, 500, 1000, 3000}, growth : {{0}, {700}, {0, 700}, {-300, 0}}]

\* the file an earlier run left at output_path
OldImage == [width |-> 800, height |-> 600]

InitCaptureVars ==
    /\ name \in Names
    /\ args \in Arguments
    /\ ct_pc = "entry"
    /\ tool_result = NoToolResult
    /\ ts_pc = "idle"
    /\ attempt = 0
    /\ attempts_made = 0
    /\ sleeps = 0
    /\ last_error = NoError
    /\ ts_raised = NoError
    /\ ts_result = NoneResult
    /\ att_pc = "none"
    /\ pending = NoError
    /\ browsers = {}
    /\ launched = 0
    /\ out_file \in {"absent", "old"}
    /\ soft_timeout = FALSE
    /\ document \in PageDocuments
    /\ page = NoPage
    /\ scroll = NoScroll
    /\ capture = NoCapture
    /\ image = (IF out_file = "old" THEN OldImage ELSE NoImage)
    /\ steps = <<>>

\* no tool call: the state of the capture side while only the handler is studied
IdleCaptureVars ==
    /\ name = "webshot"
    /\ args = [well_formed |-> TRUE, url |-> p_https, output |-> "/tmp/x.png",
               width |-> 1280, height |-> 0, dpi_scale |-> 1, device |-> "desktop",
               format |-> "png", quality |-> 100, max_retries |-> 0]
    /\ ct_pc = "done"
    /\ tool_result = NoToolResult
    /\ ts_pc = "idle"
    /\ attempt = 0
    /\ attempts_made = 0
    /\ sleeps = 0
    /\ last_error = NoError
    /\ ts_raised = NoError
    /\ ts_result = NoneResult
    /\ att_pc = "none"
    /\ pending = NoError
    /\ browsers = {}
    /\ launched = 0
    /\ out_file = "absent"
    /\ soft_timeout = FALSE
    /\ document \in PageDocuments
    /\ page = NoPage
    /\ scroll = NoScroll
    /\ capture = NoCapture
    /\ image = NoImage
    /\ steps = <<>>

\* no page: the state of the handler side while only the tool call is studied
IdleInterceptVars ==
    /\ now = 0
    /\ files = [n \in FileNames |-> NoFile]
    /\ handlers = [r \in {1} |-> IdleHandler]
    /\ issued = 0
    /\ page_requests = {}
    /\ event_loop = [r \in {1} |-> 1]

\* The handler side at the start: the clock at 0, no request issued, and the
\* cache directory as an earlier run may have left it: empty, or holding the
\* cache file of app.js, written at time 0.
InitInterceptVars(slots, requests) ==
    /\ now = 0
    /\ page_requests = requests
    /\ \E cached \in BOOLEAN :
        files = [n \in FileNames |->
                    IF cached /\ n = Route[u_app_js].file THEN File(0, "v1") ELSE NoFile]
    /\ handlers = [r \in slots |-> IdleHandler]
    /\ issued = 0

InitCapture == InitCaptureVars /\ IdleInterceptVars

\* one attempt of a valid request, as it stands when line 532 calls
\* _smart_scroll_page: the browser is open, the interceptor installed, the
\* navigation done
SettleArguments ==
    {a \in Arguments :
        /\ a.well_formed /\ a.url = p_https /\ a.output = "/tmp/x.png"
        /\ a.format = "png" /\ a.quality = 100 /\ a.max_retries = 1}

InitSettle ==
    /\ name = "webshot"
    /\ args \in SettleArguments
    /\ ct_pc = "awaiting"
    /\ tool_result = NoToolResult
    /\ ts_pc = "attempt"
    /\ attempt = 0
    /\ attempts_made = 1
    /\ sleeps = 0
    /\ last_error = NoError
    /\ ts_raised = NoError
    /\ ts_result = NoneResult
    /\ att_pc = "scroll"
    /\ pending = NoError
    /\ browsers = {1}
    /\ launched = 1
    /\ out_file = "absent"
    /\ soft_timeout = FALSE
    /\ document \in SettleDocuments
    /\ \E in_devices \in BOOLEAN : page = ContextPage(args, in_devices)
    /\ scroll = NoScroll
    /\ capture = NoCapture
    /\ image = NoImage
    /\ steps = <<"launch", "context", "route", "goto", "wait_load", "wait_idle">>
    /\ IdleInterceptVars
\* every sample URL, one handler invocation at a time
InitIntercept ==
    /\ IdleCaptureVars
    /\ InitInterceptVars({1}, RequestUrls \X Methods)
    /\ event_loop = [r \in {1} |-> 1]
\* two handler invocations of one page, which interleave at their suspension
\* points, on the GET of one cacheable asset
InitCache ==
    /\ IdleCaptureVars
    /\ InitInterceptVars({1, 2}, {<<u_app_js, "GET">>})
    /\ event_loop = [r \in {1, 2} |-> 1]
\* the same two invocations in two captures of two server processes, which
\* share the cache directory
InitRace ==
    /\ IdleCaptureVars
    /\ InitInterceptVars({1, 2}, {<<u_app_js, "GET">>})
    /\ event_loop = [r \in {1, 2} |-> r]

NextCapture ==
    \/ call_tool_unknown
    \/ call_tool_invoke
    \/ call_tool_return
    \/ call_tool_except
    \/ take_screenshot_validate
    \/ take_screenshot_loop
    \/ take_screenshot_sleep
    \/ attempt_launch
    \/ attempt_context
    \/ attempt_route
    \/ attempt_goto
    \/ attempt_wait_load
    \/ attempt_wait_idle
    \/ attempt_scroll
    \/ smart_scroll_iteration
    \/ smart_scroll_finalize
    \/ attempt_adaptive
    \/ attempt_final_wait
    \/ attempt_capture
    \/ attempt_resize
    \/ attempt_finally

\* the attempt from the settle pass on
NextSettle ==
    \/ attempt_scroll
    \/ smart_scroll_iteration
    \/ smart_scroll_finalize
    \/ attempt_adaptive
    \/ attempt_final_wait
    \/ attempt_capture
    \/ attempt_resize
    \/ attempt_finally

NextIntercept ==
    \/ issue_request
    \/ tick
    \/ \E r \in DOMAIN handlers : handle_start(r)
    \/ \E r \in DOMAIN handlers : handle_fetch(r)
    \/ \E r \in DOMAIN handlers : handle_body(r)
    \/ \E r \in DOMAIN handlers : handle_except(r)

\* with a handler of another process: the write that follows the open
NextRace ==
    \/ NextIntercept
    \/ \E r \in DOMAIN handlers : handle_write(r)

SpecCapture == InitCapture /\ [][NextCapture]_vars
SpecSettle == InitSettle /\ [][NextSettle]_vars
SpecIntercept == InitIntercept /\ [][NextIntercept]_vars
SpecCache == InitCache /\ [][NextIntercept]_vars
SpecRace == InitRace /\ [][NextRace]_vars

(***************************************************************************)
(* Properties of take_screenshot and call_tool, under SpecCapture.         *)
(***************************************************************************)
Finished == ts_pc \in {"returned", "raised"}
\* take_screenshot reached its retry loop: what it raised, if anything, is
\* neither a validation error nor the mkdir error
ReachedLoop == ts_pc \notin {"idle", "validate"} /\ ts_raised.type \notin {"ValueError", "OSError"}

\* C1: when validation passes and every attempt fails, take_screenshot makes
\* exactly max_retries attempts and then ends in a failure that carries the
\* error of the last attempt.
C1_ExactlyMaxRetriesThenFailure ==
    (Finished /\ ReachedLoop /\ ts_result.status # "success")
        => /\ attempts_made = args.max_retries
           /\ ts_pc = "raised"
           /\ ts_raised = last_error
           /\ ts_raised.type = "Exception"
           /\ ts_raised.attempt = args.max_retries

\* C2: the browser an attempt launched is closed before the attempt concludes:
\* at most one browser is open at any time, and none is open between attempts,
\* when the next attempt starts, or when take_screenshot has returned or raised.
C2_BrowserClosedOnEveryExit ==
    /\ Cardinality(browsers) <= 1
    /\ browsers \subseteq {attempt + 1}
    /\ (att_pc \in {"none", "launch"} => browsers = {})
    /\ (ts_pc \in {"idle", "validate", "loop", "sleep", "returned", "raised"} => browsers = {})

\* two attempts each launched a browser and failed, and the call has raised
C2_Witness ==
    /\ ts_pc = "raised"
    /\ launched >= 2
    /\ last_error.at \in {"context", "route", "goto", "capture", "resize"}
    /\ browsers = {}

TextOfOutcome ==
    /\ tool_result.kind = "text"
    /\ \/ tool_result.status = "success" /\ tool_result.path = args.output
       \/ /\ tool_result.status = "failure"
          /\ tool_result.error # NoError
          /\ (ts_pc = "raised" => tool_result.error = ts_raised)

\* C3 as stated: for every tool name and argument set call_tool returns one
\* text message, of success with the output path or of failure with the error,
\* and never raises.
C3_NeverRaisesForAnyName == ct_pc = "done" => TextOfOutcome

\* C3 as amended: for the tool name webshot call_tool returns one text message,
\* of success with the output path or of failure with the error, and raises no
\* exception; for any other name it raises ValueError.
C3_WebshotNeverRaises ==
    ct_pc = "done" =>
        IF name = "webshot" THEN TextOfOutcome
        ELSE tool_result.kind = "raised" /\ tool_result.error.type = "ValueError"

\* the failure of the last attempt came back as a failure text
C3_Witness ==
    /\ ct_pc = "done"
    /\ name = "webshot"
    /\ tool_result.kind = "text"
    /\ tool_result.status = "failure"
    /\ tool_result.error.type = "Exception"
    /\ attempts_made = MaxRetries

\* C4: when take_screenshot ends in failure, no file this call wrote is left
\* at the destination path.
C4_NoFileLeftOnFailure ==
    ts_pc = "raised" => out_file \notin {"captured", "resized", "corrupt"}

\* the request fails validation, in the words of the claim
FailsValidation(a) ==
    \/ ~(\/ SubSeq(a.url, 1, 7) = <<"h","t","t","p",":","/","/">>
         \/ SubSeq(a.url, 1, 8) = <<"h","t","t","p","s",":","/","/">>)
    \/ a.format \notin {"png", "jpeg", "webp"}
    \/ a.quality < 0
    \/ a.quality > 100

\* C5: a request that fails validation fails at once: no attempt, no browser,
\* no backoff sleep, no retry, whatever max_retries is; it ends in ValueError.
C5_ValidationFailsWithoutAttempt ==
    FailsValidation(args) =>
        /\ attempts_made = 0
        /\ launched = 0
        /\ browsers = {}
        /\ sleeps = 0
        /\ att_pc = "none"
        /\ ts_pc \in {"idle", "validate", "raised"}
        /\ (ts_pc = "raised" => ts_raised.type = "ValueError" /\ last_error = NoError)

\* an out-of-range quality alone, with retries allowed, has raised
C5_Witness ==
    /\ ts_pc = "raised"
    /\ args.quality = -1
    /\ args.format = "png"
    /\ args.url = p_https
    /\ args.max_retries = MaxRetries
    /\ ts_raised = ValueError("quality")

(***************************************************************************)
(* Properties of _handle_resource_cache.                                   *)
(***************************************************************************)
Handler(s) == handlers[s]
CacheFile(h) == files[Route[h.url].file]

\* C6 as stated: no request is fulfilled from a cache file of age >= 24 h, and
\* a stale file the handler finds is gone before the live fetch is issued,
\* also when the delete fails.
C6_StaleDeletedBeforeFetch ==
    \A s \in DOMAIN handlers :
        LET h == Handler(s) IN
        /\ (h.source = "cache" => h.found = "fresh")
        /\ (h.saw_stale => h.fetch_issued /\ ~h.present_at_fetch)

\* C6 as amended: no request is fulfilled from a cache file of age >= 24 h; a
\* handler that finds a stale file tries to delete it before it issues the live
\* fetch; the file is gone at that moment if and only if the delete succeeded,
\* and a failed delete is dropped and the request is still fetched live.
C6_StaleNeverServed ==
    \A s \in DOMAIN handlers :
        LET h == Handler(s) IN
        /\ (h.source = "cache" => h.found = "fresh")
        /\ (h.found = "stale" => h.source # "cache" /\ h.fetch_issued)
        /\ (h.found = "stale" /\ ~h.stat_failed => h.saw_stale)
        /\ (h.saw_stale => h.fetch_issued /\ (h.present_at_fetch <=> h.remove_failed))
        /\ (h.remove_failed => h.saw_stale /\ h.fault # "abort")

\* one handler deleted the stale file and was fulfilled live; another could not
\* delete it and was fulfilled live as well
C6_Witness ==
    \E s1, s2 \in DOMAIN handlers :
        /\ Handler(s1).saw_stale /\ ~Handler(s1).remove_failed
        /\ Handler(s1).pc = "done" /\ Handler(s1).source = "live"
        /\ Handler(s2).saw_stale /\ Handler(s2).remove_failed
        /\ Handler(s2).pc = "done" /\ Handler(s2).source = "live"

\* the lookup of a cacheable GET found the file on disk with age < 24 h
FoundFresh(h) == h.method = "GET" /\ h.found = "fresh" /\ ~h.stat_failed
\* h2 was the next request after h1, and neither ran beside another handler
Consecutive(h1, h2) == h1.alone /\ h2.alone /\ h1.id >= 1 /\ h2.id = h1.id + 1
FulfilledFromCache(h) ==
    /\ h.resolution = "fulfill"
    /\ h.source = "cache"
    /\ h.served = [status |-> 200, body |-> CacheFile(h).body]

hostname(url) ==
    LET netloc == urlparse(url).netloc
        at == RFind(netloc, "@")
        hostport == SubSeq(netloc, at + 1, Len(netloc))
    IN  lower(SubSeq(hostport, 1, FindAny(hostport, {":"}, 1) - 1))

\* the host equals a full-block entry or is a subdomain of one
HostFullBlocked(url) ==
    \E b \in BLOCKED_FULL_DOMAINS :
        hostname(url) = b \/ endswith(hostname(url), <<".">> \o b)

\* C8: a request whose host equals a full-block entry or is a subdomain of one
\* is aborted, whatever its scheme, port, path, extension and method, and it
\* causes no cache lookup, no live fetch and no cache file.
C8_FullBlockHostAborted ==
    \A s \in DOMAIN handlers :
        LET h == Handler(s) IN
        (h.pc \notin {"idle", "start"} /\ HostFullBlocked(h.url) /\ h.fault = "none")
            => /\ h.pc = "done"
               /\ h.resolution = "abort"
               /\ ~h.looked_up
               /\ ~h.fetch_issued
               /\ h.store = "none"
               /\ ~CacheFile(h).exists

\* no call of the handler raised and no file operation failed
NoFailure(h) ==
    /\ h.fault = "none"
    /\ ~h.stat_failed
    /\ ~h.remove_failed
    /\ h.store \in {"none", "ok"}

\* C9: for a URL that matches no block rule and whose path extension is
\* cacheable, a GET is handled through the cache (fulfilled from a fresh cache
\* file, or fetched live, stored and fulfilled), and a request of another
\* method is continued and never reads, writes or is fulfilled from the cache.
C9_GetCachedOthersContinued ==
    \A s \in DOMAIN handlers :
        LET h == Handler(s) IN
        (h.pc \notin {"idle", "start"} /\ ~Route[h.url].block
            /\ Route[h.url].ext \in CACHEABLE_EXTENSIONS)
        => IF h.method = "GET"
           THEN /\ h.looked_up
                /\ h.resolution # "abort"
                /\ (h.pc = "done" /\ NoFailure(h) =>
                       /\ h.resolution = "fulfill"
                       /\ \/ h.source = "cache" /\ h.found = "fresh" /\ ~h.fetch_issued
                          \/ /\ h.source = "live" /\ h.found # "fresh"
                             /\ h.fetch_issued /\ h.store = "ok")
           ELSE /\ ~h.looked_up
                /\ ~h.fetch_issued
                /\ h.store = "none"
                /\ h.source = "none"
                /\ h.resolution \in {"none", "continue"}
                /\ (h.pc = "done" => h.resolution = "continue")

\* a POST of a URL whose cache file is on disk was continued
C9_Witness ==
    \E s \in DOMAIN handlers :
        /\ Handler(s).pc = "done"
        /\ Handler(s).method = "POST"
        /\ Handler(s).url = u_style
        /\ Handler(s).resolution = "continue"
        /\ Handler(s).fault = "none"
        /\ CacheFile(Handler(s)).exists

\* the handler ended: it returned, or an exception left it
Ended(h) == h.pc \in {"done", "raised"}

StoreFailed(h) == h.store \in {"open_failed", "write_failed"}

\* C11: on a cache miss of a cacheable GET a failure to write the cache file is
\* dropped: it never reaches the except clause of the handler, the handler goes
\* on to route.fulfill with the live response, and when that call takes effect
\* the request is fulfilled with the live-fetched status and bytes, neither
\* continued nor aborted.
C11_StoreFailureSwallowed ==
    [][\A r \in DOMAIN handlers :
        LET h == handlers[r]
            h2 == handlers'[r]
        IN  (h.pc \in {"body", "write"} /\ h2.pc # h.pc /\ StoreFailed(h2))
            => /\ h2.fault \in {"none", "fulfill"}
               /\ h2.pc \in {"done", "except"}
               /\ (h2.fault = "none" =>
                      /\ h2.pc = "done"
                      /\ h2.resolution = "fulfill"
                      /\ h2.source = "live"
                      /\ h2.served = h.response
                      /\ h.response \in Responses)]_vars

\* the write of the cache file failed half way, and the request was fulfilled
\* with the live response
C11_Witness ==
    \E s \in DOMAIN handlers :
        /\ Handler(s).pc = "done"
        /\ Handler(s).store = "write_failed"
        /\ Handler(s).resolution = "fulfill"
        /\ Handler(s).source = "live"
        /\ Handler(s).served \in Responses
        /\ CacheFile(Handler(s)).body = "partial"

\* C15: a cache hit gives the page the status and the body that the miss which
\* populated the entry gave it: of two consecutive requests of one URL, the
\* first fetched, stored and fulfilled live, the second fulfilled from the
\* cache file, both were served the same response.
C15_HitSameAsMiss ==
    \A s1, s2 \in DOMAIN handlers :
        LET h1 == Handler(s1)
            h2 == Handler(s2)
        IN  (/\ Consecutive(h1, h2) /\ h1.url = h2.url
             /\ h1.pc = "done" /\ h1.source = "live" /\ h1.store = "ok"
             /\ h2.pc = "done" /\ h2.source = "cache")
            => h2.served = h1.served

\* C16: with two handlers of two server processes on one cache key, every
\* request whose handler met no failing call is resolved, a request is
\* fulfilled from the cache only after the file's age was found < 24 h, and no
\* request is fulfilled from a cache file that is partially written or deleted.
C16_RacesHarmless ==
    \A s \in DOMAIN handlers :
        LET h == Handler(s) IN
        /\ (Ended(h) /\ h.fault = "none" => h.pc = "done" /\ h.resolution # "none")
        /\ (h.source = "cache" => h.found = "fresh" /\ ~h.stat_failed)
        /\ (h.source = "cache" => h.served.body \notin {"partial", "none"})

(***************************************************************************)
(* Properties of the settle pass and the capture, under SpecSettle.        *)
(***************************************************************************)
\* C12 as stated: the scroll loop runs at most 20 iterations, and it stops
\* before the 20th only when current_scroll has reached scroll_target.
C12_StopsOnlyAtTargetOrCap ==
    [][/\ scroll'.scroll_count <= 20
       /\ (scroll.pc = "loop" /\ scroll'.pc # "loop")
            => (scroll.scroll_count = 20 \/ scroll.current_scroll >= scroll.scroll_target)]_vars

\* C12 as amended: the scroll loop runs at most 20 iterations, whatever the
\* document and viewport heights and however the document grows; when
\* _smart_scroll_page gets past its loop and returns normally, 20 iterations
\* were made or current_scroll has reached scroll_target; the loop stops
\* earlier only when a page.evaluate raises, which ends the whole pass.
C12_LoopBoundedExitAtTarget ==
    [][/\ scroll'.scroll_count <= 20
       /\ (scroll.pc = "loop" /\ scroll'.pc = "loop")
            => /\ scroll.scroll_count < 20
               /\ scroll'.scroll_count = scroll.scroll_count + 1
               /\ scroll.current_scroll < scroll.scroll_target
       /\ (scroll.pc = "loop" /\ scroll'.pc = "returned")
            => (scroll.scroll_count = 20 \/ scroll.current_scroll >= scroll.scroll_target)
       /\ (scroll.pc = "loop" /\ scroll'.pc # "loop")
            => (scroll'.pc \in {"returned", "aborted"} /\ att_pc' # "scroll")]_vars

\* a document that grows on every scroll: 20 iterations are made and the
\* offset is still short of the target
C12_Witness ==
    /\ scroll.pc = "loop"
    /\ scroll.scroll_count = 20
    /\ scroll.current_scroll < scroll.scroll_target
    /\ document.growth = {700}

\* C14 as stated: with height = 0 the viewport height at the screenshot is the
\* document height read at line 539, after the settle pass, and the
\* screenshot is of the full page; with height > 0 the screenshot is of the
\* viewport and the viewport was not resized.
C14_AdaptiveViewportIsMeasuredHeight ==
    capture.taken =>
        IF args.height = 0
        THEN /\ capture.full_page
             /\ capture.page_height >= 0
             /\ capture.viewport_height = capture.page_height
        ELSE /\ ~capture.full_page
             /\ ~capture.resized
             /\ capture.viewport_height = page.context_height

\* C14 as amended: with height = 0 the screenshot is of the full page, and
\* the viewport height at the screenshot is the document height read at line
\* 539 when that read and set_viewport_size succeeded; when one of them raised
\* the exception is dropped and the viewport has the height the context was
\* created with. With height > 0 the screenshot is of the viewport, which was
\* not resized.
C14_AdaptiveViewportWhenResized ==
    /\ (capture.page_height # -1 => scroll.pc \in {"returned", "aborted"} /\ args.height = 0)
    /\ (capture.resized => capture.page_height # -1 /\ args.height = 0)
    /\ capture.taken =>
        IF args.height = 0
        THEN /\ capture.full_page
             /\ (capture.resized =>
                    /\ capture.viewport_height = capture.page_height
                    /\ page.viewport = [width |-> args.width, height |-> capture.page_height])
             /\ (~capture.resized => capture.viewport_height = page.context_height)
        ELSE /\ ~capture.full_page
             /\ ~capture.resized
             /\ capture.viewport_height = page.context_height

\* a full-page screenshot with the viewport at the height the grown document
\* had after the settle pass
C14_Witness ==
    /\ capture.taken
    /\ args.height = 0
    /\ capture.resized
    /\ capture.full_page
    /\ capture.page_height > 3000
    /\ capture.viewport_height = capture.page_height

\* C20: in one settle pass scroll_target starts at the first document height
\* read (adaptive) or at min(target_height, that height) (fixed); it never
\* decreases, follows a larger document height in adaptive mode and only
\* there, and is constant in fixed mode; current_scroll grows on every
\* completed iteration and never exceeds scroll_target. Offsets are in fifths
\* of a pixel.
C20_ScrollStateInvariants ==
    [][/\ (scroll.pc = "none" /\ scroll'.pc = "loop")
            => /\ scroll'.current_scroll = 0
               /\ scroll'.scroll_target =
                     5 * (IF args.height = 0 \/ document'.scrollHeight < args.height
                          THEN document'.scrollHeight ELSE args.height)
       /\ (scroll.pc = "loop" /\ scroll'.pc = "loop")
            => /\ scroll'.scroll_target >= scroll.scroll_target
               /\ (args.height # 0 => scroll'.scroll_target = scroll.scroll_target)
               /\ (args.height = 0 /\ document'.scrollHeight > scroll.initial_height
                        => scroll'.scroll_target = 5 * document'.scrollHeight)
               /\ (scroll'.scroll_target # scroll.scroll_target
                        => /\ args.height = 0
                           /\ document'.scrollHeight > scroll.initial_height
                           /\ scroll'.scroll_target = 5 * document'.scrollHeight)
               /\ scroll'.current_scroll > scroll.current_scroll
       /\ scroll'.current_scroll <= scroll'.scroll_target]_vars

\* in adaptive mode the target was moved to the height of the grown document
\* and the offset has advanced by two steps of 600 pixels
C20_Witness ==
    /\ scroll.pc = "loop"
    /\ args.height = 0
    /\ scroll.client_height = 0
    /\ scroll.scroll_count = 2
    /\ scroll.current_scroll = 5 * 1200
    /\ scroll.scroll_target = 5 * 2400
    /\ scroll.initial_height = 2400

(***************************************************************************)
(* Properties of the attempt and of the retry loop, under SpecCapture.     *)
(***************************************************************************)
\* the steps between the navigation and the screenshot
SettleSteps == {"wait_load", "wait_idle", "scroll", "adaptive", "final_wait"}

\* C13 as stated: no step from the navigation's return on fails the attempt:
\* the waits are recovered, and only the navigation itself makes an attempt
\* that has a page end with an exception.
C13_OnlyNavigationFailsAttempt ==
    [][(att_pc \in SettleSteps \cup {"capture", "resize"}) => (pending' = NoError)]_vars

\* C13 as amended: from the return of the navigation to the screenshot no wait
\* fails the attempt: whatever times out (the waits after the navigation,
\* those inside and at the end of the scroll pass, the one after the viewport
\* resize, the final one), the attempt goes on towards the capture step with
\* no exception in flight; a failure of page.goto ends the attempt, and no
\* screenshot is taken in it; the other steps that end an attempt with an
\* exception are new_context, page.route, page.screenshot (30 s timeout) and
\* the resize.
C13_WaitTimeoutsRecovered ==
    [][/\ att_pc \in SettleSteps
            => /\ att_pc' \in SettleSteps \cup {"capture"}
               /\ pending' = NoError
               /\ ts_pc' = "attempt"
               /\ last_error' = last_error
       /\ (att_pc = "goto" /\ att_pc' = "finally")
            => /\ pending' = AttemptError("goto", attempt + 1)
               /\ ~capture'.taken
       /\ (pending.at = "goto" /\ pending' = pending) => ~capture'.taken
       /\ (pending' # pending /\ pending' # NoError)
            => /\ att_pc \in {"context", "route", "goto", "capture", "resize"}
               /\ pending' = AttemptError(att_pc, attempt + 1)
               /\ att_pc' = "finally"]_vars

\* the attempt stands at the capture step after a wait has timed out, the
\* scroll pass was cut short by an exception, and the viewport was resized
C13_Witness ==
    /\ att_pc = "capture"
    /\ soft_timeout
    /\ scroll.pc = "aborted"
    /\ capture.resized
    /\ pending = NoError

\* C17: take_screenshot ends with the result of the last attempt it made: the
\* Success of the first attempt that succeeded, with no attempt and no backoff
\* after it, or else the exception of the last of max_retries attempts; it
\* never ends with anything else.
C17_OutcomeIsLastAttemptResult ==
    (Finished /\ ReachedLoop) =>
        /\ attempts_made >= 1
        /\ attempts_made = attempt + 1
        /\ sleeps = attempt
        /\ \/ /\ ts_pc = "returned"
              /\ ts_result = [status |-> "success", path |-> args.output]
           \/ /\ ts_pc = "raised"
              /\ attempts_made = args.max_retries
              /\ ts_raised = last_error
              /\ ts_raised.attempt = attempts_made

\* the place of each step in the order the claim gives
StepRank ==
    [launch |-> 1, context |-> 2, route |-> 3, goto |-> 4, wait_load |-> 5,
     wait_idle |-> 6, scroll |-> 7, adaptive |-> 8, final_wait |-> 9,
     capture |-> 10, resize |-> 11, close |-> 12]

\* the steps that must have completed before a step completes
StepRequires ==
    [launch |-> {}, context |-> {"launch"}, route |-> {"context"}, goto |-> {"route"},
     wait_load |-> {"goto"}, wait_idle |-> {"goto"}, scroll |-> {"goto"},
     adaptive |-> {"scroll"}, final_wait |-> {"scroll"}, capture |-> {"goto", "scroll"},
     resize |-> {"capture"}, close |-> {"launch"}]

\* C18: the steps of one attempt complete in the order browser and context,
\* interceptor, navigation, settle pass, capture, resize, release: the
\* interceptor is installed before the navigation starts, the screenshot is
\* taken only after _smart_scroll_page has returned, the resize only after
\* the screenshot, and the browser is closed last.
C18_StepsInOrder ==
    /\ \A i, j \in 1..Len(steps) :
            i < j => StepRank[steps[i]] < StepRank[steps[j]]
    /\ \A i \in 1..Len(steps) :
            StepRequires[steps[i]] \subseteq {steps[k] : k \in 1..(i - 1)}
    /\ (att_pc = "goto" => steps = <<"launch", "context", "route">>)
    /\ (att_pc \in {"capture", "resize"} => scroll.pc \in {"returned", "aborted"})
    /\ (att_pc = "resize" => capture.taken)
    /\ (capture.taken => steps # <<>> /\ \E i \in 1..Len(steps) : steps[i] = "capture")

\* an attempt that went through every step, the resize included
C18_Witness ==
    steps = <<"launch", "context", "route", "goto", "wait_load", "wait_idle",
              "scroll", "final_wait", "capture", "resize", "close">>

HostExactBlocked(url) == hostname(url) \in BLOCKED_EXACT_DOMAINS

\* the lower-cased path contains a blocked pattern
PathBlocked(url) ==
    \E pattern \in BLOCKED_PATTERNS : contains(lower(urlparse(url).path), pattern)

\* one of the three rule categories, applied to a URL
Rule(category, url) ==
    IF category = "exact" THEN HostExactBlocked(url)
    ELSE IF category = "full" THEN HostFullBlocked(url)
    ELSE PathBlocked(url)

\* one of the three checks of lines 119-137, as the handler evaluates it
HandlerCheck(category, url) ==
    IF category = "exact" THEN blocked_exact(lower(urlparse(url).netloc))
    ELSE IF category = "full" THEN blocked_full(lower(urlparse(url).netloc))
    ELSE should_block_path(lower(urlparse(url).path))

\* the decision when the handler's checks are evaluated in `order` and the
\* evaluation stops at the first that matches
DecidedInOrder(order, url) ==
    \E k \in 1..Len(order) :
        /\ HandlerCheck(order[k], url)
        /\ \A j \in 1..(k - 1) : ~HandlerCheck(order[j], url)

RuleOrders ==
    {o \in [1..3 -> {"exact", "full", "path"}] : \A i, j \in 1..3 : o[i] = o[j] => i = j}

\* a host name without its first label
ParentDomain(host) == SubSeq(host, FindAny(host, {"."}, 1) + 1, Len(host))

\* the host is a subdomain or a sibling of an exact-block entry, and the URL
\* matches no rule
NearExactOnly(url) ==
    /\ \A category \in {"exact", "full", "path"} : ~Rule(category, url)
    /\ \E e \in BLOCKED_EXACT_DOMAINS :
        \/ endswith(hostname(url), <<".">> \o e)
        \/ ParentDomain(hostname(url)) = ParentDomain(e)

\* the handler called route.abort()
AbortIssued(h) == h.resolution = "abort" \/ h.fault = "abort"

\* C21: the handler calls route.abort() only for a URL whose host is in the
\* exact-block set, or equals or is a subdomain of a full-block entry, or whose
\* lower-cased path contains a blocked pattern; a URL whose host is only a
\* subdomain or a sibling of an exact-block entry is never aborted; and the
\* handler's decision is the one every order of evaluating the three
\* categories gives.
C21_AbortOnlyByRule ==
    \A s \in DOMAIN handlers :
        LET h == Handler(s) IN
        h.pc # "idle" =>
            /\ (AbortIssued(h) => \E category \in {"exact", "full", "path"} : Rule(category, h.url))
            /\ (NearExactOnly(h.url) => ~AbortIssued(h))
            /\ (h.pc = "done" /\ NearExactOnly(h.url) /\ h.fault = "none"
                    => h.resolution \in {"continue", "fulfill"})
            /\ \A order \in RuleOrders :
                    Route[h.url].block = DecidedInOrder(order, h.url)

\* a GET of a subdomain of the exact-block entry hm.baidu.com was fetched and
\* fulfilled
C21_Witness ==
    \E s \in DOMAIN handlers :
        /\ Handler(s).url = u_exact_sub
        /\ NearExactOnly(u_exact_sub)
        /\ Handler(s).pc = "done"
        /\ Handler(s).resolution = "fulfill"
        /\ Handler(s).source = "live"

\* C22 as stated: when the handler has ended, on whatever path, exactly one
\* route call has taken effect for its request.
C22_ResolvedExactlyOnce ==
    \A s \in DOMAIN handlers :
        LET h == Handler(s) IN
        Ended(h) => h.resolved = 1 /\ h.resolution \in {"abort", "continue", "fulfill"}

\* C22 as amended: at most one route call takes effect for a request, and once
\* one has, the handler has returned and issues no other; a handler that
\* returns has resolved its request exactly once, also after abort, continue,
\* fetch, body or fulfill raised and the except clause ran; the request is
\* left unresolved only when the continue of the except clause raises too,
\* and then the exception leaves the handler.
C22_ResolvedAtMostOnce ==
    \A s \in DOMAIN handlers :
        LET h == Handler(s) IN
        /\ h.resolved \in {0, 1}
        /\ (h.resolved = 1 <=> h.resolution \in {"abort", "continue", "fulfill"})
        /\ (h.resolved = 0 <=> h.resolution = "none")
        /\ (h.resolved = 1 => h.pc = "done")
        /\ (h.pc = "done" => h.resolved = 1)
        /\ (h.pc = "raised" => h.resolved = 0 /\ h.fault # "none")
        /\ (h.fault # "none" /\ h.pc = "done" => h.resolution = "continue")

\* route.fulfill raised, the except clause ran and its continue took effect:
\* one resolution
C22_Witness ==
    \E s \in DOMAIN handlers :
        /\ Handler(s).pc = "done"
        /\ Handler(s).fault = "fulfill"
        /\ Handler(s).fetch_issued
        /\ Handler(s).resolution = "continue"
        /\ Handler(s).resolved = 1

====
